---- MODULE Spec2Model ----
(***************************************************************************)
(* Model of main.py: the chunking loop and the subject/object extraction   *)
(* of KnowledgeGraphGenerator.create_triples_from_text, the read-modify-   *)
(* rewrite persistence of append_triples_to_json, process_single_paper and *)
(* the per-paper loop of main with its clear at the start of a run and its *)
(* load of the results at the end.                                         *)
(*                                                                         *)
(* Strings that the code inspects character by character (the text that is *)
(* sliced into chunks, the dependency tag that is searched for "subj" and  *)
(* "obj") are sequences of one-character strings (Spell gives a tag's).     *)
(* The spaCy parser is an external capability: what it returns for the     *)
(* k-th call is an input.                                                  *)
(***************************************************************************)
EXTENDS Integers, Sequences, FiniteSets, TLC

VARIABLES
    text,                \* create_triples_from_text: the text argument
    chunk_size,          \* create_triples_from_text: the chunk_size argument
    paper_info,          \* create_triples_from_text: {"title", "url"}
    parse,               \* parse[k]: the Doc self.nlp returns on its k-th call
    result,              \* outcome of the call: exception raised, value returned
    nlp_calls,           \* the chunks handed to self.nlp, in call order
    file,                \* OUTPUT_PATH on disk: exists, kind of content, array
    new_triples,         \* append_triples_to_json: argument of each caller
    existing_data,       \* append_triples_to_json: local of each caller
    mpc,                 \* append_triples_to_json: position of each caller
    raised,              \* append_triples_to_json: exception each call ended in
    io,                  \* number of reads/writes of OUTPUT_PATH so far
    merged,              \* history: the batches passed to completed merges
    before,              \* history: the file as it was when the merge began
    overlapped,          \* history: a call began while another was in flight
    cleared,             \* history: the store was cleared, only merges since
    session_state,       \* st.session_state: has 'results', and its value
    pc,                  \* main: position of the script run
    papers,              \* main: the list search_papers returned
    idx,                 \* main: number of papers the loop has finished (i)
    total_triples_found, \* main: the counter
    visited,             \* history: papers handed to process_single_paper
    runs                 \* number of runs started with the button

vars == <<text, chunk_size, paper_info, parse, result, nlp_calls, file,
          new_triples, existing_data, mpc, raised, io, merged, before,
          overlapped, cleared, session_state, pc, papers, idx, total_triples_found,
          visited, runs>>

createVars == <<text, chunk_size, paper_info, parse, result, nlp_calls>>
mergeVars == <<new_triples, existing_data, mpc, raised, merged, before, overlapped, cleared>>
mainVars == <<session_state, pc, papers, idx, total_triples_found, visited, runs>>

(***************************************************************************)
(* Bounds of the model and constants of the program.                       *)
(***************************************************************************)
MaxTextLen == 5
MaxChunkSize == 3
MaxDocTokens == 5
DefaultChunkSize == 50000
MaxBatchLen == 2
MaxStored == 2
MaxMerges == 3
MaxPapers == 3
MaxRuns == 2

Min(a, b) == IF a < b THEN a ELSE b

RECURSIVE Flatten(_)
Flatten(seqs) ==
    IF seqs = <<>> THEN <<>> ELSE Head(seqs) \o Flatten(Tail(seqs))

(***************************************************************************)
(* Python built-ins used by the code.                                      *)
(***************************************************************************)
\* a slice that runs one character into the next chunk
SliceMutantOverlap(s, lo, hi) == SubSeq(s, lo + 1, Min(hi + 1, Len(s)))

\* text[lo:hi] for 0 <= lo: the slice is clamped to the end of the text.
Slice(s, lo, hi) == SubSeq(s, lo + 1, Min(hi, Len(s)))

\* `needle in s` on strings.
Contains(needle, s) ==
    \E k \in 0..(Len(s) - Len(needle)) :
        SubSeq(s, k + 1, k + Len(needle)) = needle

\* " ".join(words)
RECURSIVE JoinSpace(_)
JoinSpace(words) ==
    IF words = <<>> THEN ""
    ELSE IF Len(words) = 1 THEN words[1]
    ELSE words[1] \o " " \o JoinSpace(Tail(words))

\* [x for x in xs if keep(x)] by position: keep[i] tells whether the i-th
\* element stays; the positions kept, in the order of the iteration.
RECURSIVE FilterIdx(_, _)
FilterIdx(keep, i) ==
    IF i > Len(keep) THEN <<>>
    ELSE (IF keep[i] THEN <<i>> ELSE <<>>) \o FilterIdx(keep, i + 1)

(***************************************************************************)
(* spaCy structures.  A sentence is a sequence of tokens; a token carries  *)
(* text, dep_, lemma_ and the index of its head in the sentence (the root  *)
(* is its own head).                                                       *)
(***************************************************************************)
SUBJ == <<"s", "u", "b", "j">>
OBJ == <<"o", "b", "j">>
DepROOT == "ROOT"
DepNsubjpass == "nsubjpass"
DepDobj == "dobj"
DepDet == "det"
NonRootDeps == {DepNsubjpass, DepDobj, DepDet}

\* the characters of a dependency tag
Spell(tag) ==
    CASE tag = "ROOT" -> <<"R", "O", "O", "T">>
      [] tag = "nsubjpass" -> <<"n", "s", "u", "b", "j", "p", "a", "s", "s">>
      [] tag = "dobj" -> <<"d", "o", "b", "j">>
      [] tag = "det" -> <<"d", "e", "t">>

Words == <<"models", "improved", "results">>
Lemmas == <<"model", "improve", "result">>
WordAt(i) == Words[((i - 1) % Len(Words)) + 1]
LemmaAt(i) == Lemmas[((i - 1) % Len(Lemmas)) + 1]

\* sent.root
Root(sent) == CHOOSE r \in 1..Len(sent) : sent[r].head = r

\* whether token j lies in the subtree of token i
RECURSIVE InSubtree(_, _, _, _)
InSubtree(sent, i, j, fuel) ==
    \/ j = i
    \/ /\ fuel > 0
       /\ sent[j].head # j
       /\ InSubtree(sent, i, sent[j].head, fuel - 1)

\* " ".join(t.text for t in tok.subtree): the subtree in sentence order
SubtreePhrase(sent, i) ==
    LET members == FilterIdx([j \in 1..Len(sent) |-> InSubtree(sent, i, j, Len(sent))], 1)
    IN JoinSpace([k \in 1..Len(members) |-> sent[members[k]].text])

\* [tok for tok in sent if "subj" in tok.dep_]
Subjects(sent) ==
    FilterIdx([j \in 1..Len(sent) |-> Contains(SUBJ, Spell(sent[j].dep_))], 1)

\* [tok for tok in sent if "obj" in tok.dep_]
Objects(sent) ==
    FilterIdx([j \in 1..Len(sent) |-> Contains(OBJ, Spell(sent[j].dep_))], 1)

\* a triple whose predicate is the lemma of the subject's own head
MakeTripleMutantHeadLemma(sent, sub, obj, info) ==
    [subject |-> SubtreePhrase(sent, sub),
     predicate |-> sent[sent[sub].head].lemma_,
     object |-> SubtreePhrase(sent, obj),
     source_title |-> info.title,
     source_url |-> info.url]

\* the dict appended for one (sub, obj) pair
MakeTriple(sent, sub, obj, info) ==
    [subject |-> SubtreePhrase(sent, sub),
     predicate |-> sent[Root(sent)].lemma_,
     object |-> SubtreePhrase(sent, obj),
     source_title |-> info.title,
     source_url |-> info.url]

\* for obj in objects: triples.append(...)
RECURSIVE ObjLoop(_, _, _, _, _)
ObjLoop(sent, sub, objects, info, oi) ==
    IF oi > Len(objects) THEN <<>>
    ELSE <<MakeTriple(sent, sub, objects[oi], info)>>
         \o ObjLoop(sent, sub, objects, info, oi + 1)

\* for sub in subjects: for obj in objects: ...
RECURSIVE SubLoop(_, _, _, _, _)
SubLoop(sent, subjects, objects, info, si) ==
    IF si > Len(subjects) THEN <<>>
    ELSE ObjLoop(sent, subjects[si], objects, info, 1)
         \o SubLoop(sent, subjects, objects, info, si + 1)

\* the body of `for sent in doc.sents`
SentTriples(sent, info) ==
    LET subjects == Subjects(sent)
        objects == Objects(sent)
    IN IF subjects # <<>> /\ objects # <<>>
       THEN SubLoop(sent, subjects, objects, info, 1)
       ELSE <<>>

\* a loop that stops at the first sentence that yields nothing
RECURSIVE DocTriplesMutantBreak(_, _)
DocTriplesMutantBreak(doc, info) ==
    IF doc = <<>> THEN <<>>
    ELSE IF SentTriples(Head(doc), info) = <<>> THEN <<>>
    ELSE SentTriples(Head(doc), info) \o DocTriplesMutantBreak(Tail(doc), info)

\* for sent in doc.sents: ...
RECURSIVE DocTriples(_, _)
DocTriples(doc, info) ==
    IF doc = <<>> THEN <<>>
    ELSE SentTriples(Head(doc), info) \o DocTriples(Tail(doc), info)

\* for i in range(0, len(text), chunk_size) with chunk_size > 0
RECURSIVE ChunkLoop(_, _, _, _, _, _)
ChunkLoop(txt, info, size, docs, i, k) ==
    IF i >= Len(txt) THEN [triples |-> <<>>, calls |-> <<>>]
    ELSE LET chunk == Slice(txt, i, i + size)
             rest == ChunkLoop(txt, info, size, docs, i + size, k + 1)
         IN [triples |-> DocTriples(docs[k], info) \o rest.triples,
             calls |-> <<chunk>> \o rest.calls]

\* create_triples_from_text: range() raises ValueError on a zero step and is
\* empty for a negative step (start 0 is not above stop len(text)).
create_triples_from_text(txt, info, size, docs) ==
    IF size = 0
    THEN [exc |-> "ValueError", value |-> <<>>, calls |-> <<>>]
    ELSE IF size < 0
    THEN [exc |-> "none", value |-> <<>>, calls |-> <<>>]
    ELSE LET r == ChunkLoop(txt, info, size, docs, 0, 1)
         IN [exc |-> "none", value |-> r.triples, calls |-> r.calls]

(***************************************************************************)
(* OUTPUT_PATH and append_triples_to_json.  The file is missing, or holds  *)
(* a JSON array (data), or nothing at all ("empty": opened for writing and *)
(* not yet written), or a prefix of a JSON text ("truncated"), or JSON     *)
(* that is no array ("object").                                            *)
(***************************************************************************)
FileArray(d) == [exists |-> TRUE, kind |-> "array", data |-> d]
EmptyFile == [exists |-> TRUE, kind |-> "empty", data |-> <<>>]
TruncatedFile == [exists |-> TRUE, kind |-> "truncated", data |-> <<>>]
ObjectFile == [exists |-> TRUE, kind |-> "object", data |-> <<>>]

\* json.load(f): raises json.JSONDecodeError on text that is no JSON
JsonLoad(f) ==
    IF f.kind \in {"empty", "truncated"}
    THEN [exc |-> "JSONDecodeError", is_list |-> TRUE, value |-> <<>>]
    ELSE [exc |-> "none", is_list |-> (f.kind = "array"), value |-> f.data]

\* a call that never takes over what the file holds
ReadExistingMutantForget(f) == [is_list |-> TRUE, value |-> <<>>]

\* existing_data after the try block: [] when the load raised JSONDecodeError
ReadExisting(f) ==
    LET r == JsonLoad(f)
    IN IF r.exc = "JSONDecodeError"
       THEN [is_list |-> TRUE, value |-> <<>>]
       ELSE [is_list |-> r.is_list, value |-> r.value]

EmptyList == [is_list |-> TRUE, value |-> <<>>]

\* an extend that keeps the new batch alone
ExtendMutantDrop(existing, batch) ==
    [exc |-> "none", is_list |-> TRUE, value |-> batch]

\* existing_data.extend(new_triples): only a list has extend
Extend(existing, batch) ==
    IF existing.is_list
    THEN [exc |-> "none", is_list |-> TRUE, value |-> existing.value \o batch]
    ELSE [exc |-> "AttributeError", is_list |-> FALSE, value |-> existing.value]

\* open(OUTPUT_PATH, 'w'): creates the file or cuts it to length zero
OpenForWrite(f) == EmptyFile

\* json.dump(existing_data, f) and the close that flushes it
Dumped(data) == FileArray(data)

\* one whole, uninterrupted call by a single writer
append_triples_to_json(f, batch, cnt) ==
    IF batch = <<>>
    THEN [file |-> f, io |-> cnt, exc |-> "none"]
    ELSE LET existing == IF f.exists THEN ReadExisting(f) ELSE EmptyList
             reads == IF f.exists THEN cnt.reads + 1 ELSE cnt.reads
             ext == Extend(existing, batch)
         IN IF ext.exc # "none"
            THEN [file |-> f, io |-> [cnt EXCEPT !.reads = reads], exc |-> ext.exc]
            ELSE [file |-> Dumped(ext.value),
                  io |-> [reads |-> reads, writes |-> cnt.writes + 1],
                  exc |-> "none"]

\* if os.path.exists(OUTPUT_PATH): os.remove(OUTPUT_PATH)
ClearStore(f) == [exists |-> FALSE, kind |-> "none", data |-> <<>>]

(***************************************************************************)
(* Inputs of create_triples_from_text.                                     *)
(***************************************************************************)
Alphabet == {"a", "b"}
Texts == UNION {[1..n -> Alphabet] : n \in 0..MaxTextLen}
ChunkSizes == (-2..MaxChunkSize) \cup {DefaultChunkSize}
PaperInfos == {[title |-> "Paper A", url |-> "http://arxiv.org/abs/1"],
               [title |-> "Paper B", url |-> "http://arxiv.org/abs/2"]}

\* Sentences of n tokens: one root, every other token attached to the root
\* or to the token on its left, with any of the non-root dependency tags.
SentencesOfLen(n) ==
    {[i \in 1..n |->
        LET slot == IF i < r THEN i ELSE i - 1
        IN [text |-> WordAt(i),
            dep_ |-> IF i = r THEN DepROOT ELSE d[slot],
            lemma_ |-> LemmaAt(i),
            head |-> IF i = r THEN r
                     ELSE IF h[slot] /\ i > 1 THEN i - 1 ELSE r]]
     : r \in 1..n, d \in [1..(n - 1) -> NonRootDeps], h \in [1..(n - 1) -> BOOLEAN]}

\* Docs: sequences of sentences holding at most n tokens in all; DocsFrom
\* gives those that are empty or whose first sentence has at least l tokens.
RECURSIVE DocsFrom(_, _)
DocsFrom(n, l) ==
    IF l > n THEN {<<>>}
    ELSE {<<s>> \o d : s \in SentencesOfLen(l), d \in DocsFrom(n - l, 1)}
         \cup DocsFrom(n, l + 1)

DocsUpTo(n) == DocsFrom(n, 1)

Tok(i, dep, head) ==
    [text |-> WordAt(i), dep_ |-> dep, lemma_ |-> LemmaAt(i), head |-> head]
SentSVO == <<Tok(1, DepNsubjpass, 2), Tok(2, DepROOT, 2), Tok(3, DepDobj, 2)>>
SentBare == <<Tok(1, DepROOT, 1)>>
SmallDocs == {<<>>, <<SentBare, SentSVO>>}

NoFile == [exists |-> FALSE, kind |-> "none", data |-> <<>>]
Pending == [exc |-> "pending", value |-> <<>>]

MergeIdle ==
    /\ new_triples = <<>>
    /\ existing_data = <<>>
    /\ mpc = <<>>
    /\ raised = <<>>
    /\ merged = <<>>
    /\ before = NoFile
    /\ overlapped = FALSE
    /\ cleared = FALSE

MainIdle ==
    /\ session_state = [has_results |-> FALSE, results |-> <<>>]
    /\ pc = "idle"
    /\ papers = <<>>
    /\ idx = 0
    /\ total_triples_found = 0
    /\ visited = <<>>
    /\ runs = 0

CreateIdle ==
    /\ text = <<>>
    /\ chunk_size = DefaultChunkSize
    /\ paper_info = CHOOSE p \in PaperInfos : TRUE
    /\ parse = <<>>
    /\ result = Pending
    /\ nlp_calls = <<>>

(***************************************************************************)
(* SpecCreate: one call of create_triples_from_text on drawn inputs.       *)
(* Either a short text with any chunk size and a small parse per call, or  *)
(* a text that fits one chunk with any bounded Doc as its parse.           *)
(***************************************************************************)
InitCreate ==
    /\ \/ /\ text \in Texts
          /\ chunk_size \in ChunkSizes
          /\ parse \in [1..Len(text) -> SmallDocs]
          /\ paper_info = CHOOSE p \in PaperInfos : TRUE
       \/ /\ text = <<"a">>
          /\ chunk_size = DefaultChunkSize
          /\ parse \in {<<d>> : d \in DocsUpTo(MaxDocTokens)}
          /\ paper_info = CHOOSE p \in PaperInfos : p # CHOOSE q \in PaperInfos : TRUE
    /\ result = Pending
    /\ nlp_calls = <<>>
    /\ file = NoFile
    /\ io = [reads |-> 0, writes |-> 0]
    /\ MergeIdle
    /\ MainIdle

CallCreate ==
    /\ result.exc = "pending"
    /\ LET r == create_triples_from_text(text, paper_info, chunk_size, parse)
       IN /\ result' = [exc |-> r.exc, value |-> r.value]
          /\ nlp_calls' = r.calls
    /\ UNCHANGED <<text, chunk_size, paper_info, parse, file, io>>
    /\ UNCHANGED mergeVars
    /\ UNCHANGED mainVars

NextCreate == CallCreate

SpecCreate == InitCreate /\ [][NextCreate]_vars

(***************************************************************************)
(* Properties of create_triples_from_text (checked under SpecCreate).      *)
(***************************************************************************)
Returned == result.exc # "pending"

\* the elements of a set of numbers, in increasing order
RECURSIVE Ascending(_)
Ascending(S) ==
    IF S = {} THEN <<>>
    ELSE LET m == CHOOSE x \in S : \A y \in S : x <= y
         IN <<m>> \o Ascending(S \ {m})

SubjectLike(sent) == {j \in 1..Len(sent) : Contains(SUBJ, Spell(sent[j].dep_))}
ObjectLike(sent) == {j \in 1..Len(sent) : Contains(OBJ, Spell(sent[j].dep_))}
Productive(sent) == SubjectLike(sent) # {} /\ ObjectLike(sent) # {}

\* the Docs the parser was asked for: one per chunk handed to it
UsedDocs == [k \in 1..Len(nlp_calls) |-> parse[k]]
UsedSentences == Flatten(UsedDocs)

\* C3 - Chunk coverage: for a positive chunk_size the chunks handed to the
\* parser are the consecutive slices of the text, left to right without gap
\* or overlap; their concatenation is the text; every chunk but the last has
\* length chunk_size, the last has length 1..chunk_size; the empty text
\* yields no chunk; no error is raised.
C3_ChunkCoverage ==
    (Returned /\ chunk_size > 0) =>
        LET n == Len(nlp_calls)
        IN /\ result.exc = "none"
           /\ Flatten(nlp_calls) = text
           /\ \A k \in 1..n :
                /\ nlp_calls[k] =
                     [j \in 1..Len(nlp_calls[k]) |-> text[(k - 1) * chunk_size + j]]
                /\ k < n => Len(nlp_calls[k]) = chunk_size
                /\ k = n => Len(nlp_calls[k]) \in 1..chunk_size
           /\ text = <<>> => n = 0

\* a text of length 2 * chunk_size + r with 0 < r < chunk_size gives three
\* chunks of lengths chunk_size, chunk_size, r (the 25 / 10 case in small)
C3_Witness ==
    /\ Returned
    /\ chunk_size = 2
    /\ Len(text) = 5
    /\ Len(nlp_calls) = 3
    /\ Len(nlp_calls[3]) = 1

\* the triples the claim expects of a sentence with k subject-like and m
\* object-like tokens: k*m of them, the j-th pairing subject (j-1) div m and
\* object (j-1) mod m, each with the root's lemma and the paper's title, url
CartesianOf(sent) ==
    LET S == Ascending(SubjectLike(sent))
        O == Ascending(ObjectLike(sent))
        m == Len(O)
    IN [j \in 1..(Len(S) * m) |->
          [subject |-> SubtreePhrase(sent, S[((j - 1) \div m) + 1]),
           predicate |-> sent[CHOOSE r \in 1..Len(sent) : sent[r].head = r].lemma_,
           object |-> SubtreePhrase(sent, O[((j - 1) % m) + 1]),
           source_title |-> paper_info.title,
           source_url |-> paper_info.url]]

\* C4 - Cartesian completeness: when every parsed sentence has k >= 1
\* subject-like and m >= 1 object-like tokens, the returned list is, sentence
\* after sentence, the k*m triples of that sentence: every (subject, object)
\* pair once, subjects outer and objects inner in token order, predicate the
\* lemma of the sentence's root, source_title and source_url of the paper.
C4_CartesianCompleteness ==
    (Returned /\ chunk_size > 0 /\ \A q \in 1..Len(UsedSentences) : Productive(UsedSentences[q])) =>
        result.value =
            Flatten([q \in 1..Len(UsedSentences) |-> CartesianOf(UsedSentences[q])])

\* a sentence with two subject-like and two object-like tokens gave 4 triples
C4_Witness ==
    /\ Returned
    /\ Len(UsedSentences) = 1
    /\ Cardinality(SubjectLike(UsedSentences[1])) = 2
    /\ Cardinality(ObjectLike(UsedSentences[1])) = 2
    /\ Len(result.value) = 4
    /\ result.value[2].subject = result.value[1].subject
    /\ result.value[2].object # result.value[1].object

\* C6 (as claimed) - a chunk_size <= 0 ends the call in an error, for every
\* text: it never returns a triple list.
C6_NonPositiveChunkSizeRaises ==
    (Returned /\ chunk_size <= 0) => result.exc # "none"

\* C9 - Degenerate input: with a positive chunk_size no error is raised; the
\* empty text, Docs without sentences and sentences whose subject-like or
\* object-like set is empty give no triple; the result is the result of the
\* same parse with the unproductive sentences removed, and every productive
\* sentence contributes at least one triple.
C9_DegenerateInput ==
    (Returned /\ chunk_size > 0) =>
        LET kept == [k \in 1..Len(parse) |-> SelectSeq(parse[k], Productive)]
            productive == SelectSeq(UsedSentences, Productive)
        IN /\ result.exc = "none"
           /\ text = <<>> => result.value = <<>>
           /\ productive = <<>> => result.value = <<>>
           /\ result.value =
                create_triples_from_text(text, paper_info, chunk_size, kept).value
           /\ Len(result.value) >= Len(productive)
           /\ (Len(UsedSentences) = 1 /\ result.value # <<>>) => productive # <<>>

\* a Doc whose first sentence is skipped and whose second sentence yields
C9_Witness ==
    /\ Returned
    /\ Len(nlp_calls) >= 1
    /\ Len(parse[1]) = 2
    /\ ~Productive(parse[1][1])
    /\ Productive(parse[1][2])
    /\ result.value # <<>>

(***************************************************************************)
(* SpecStore: a single writer calling append_triples_to_json (each call    *)
(* whole) and clearing the store, from any content of OUTPUT_PATH.         *)
(***************************************************************************)
TriplePool == {DocTriples(<<SentSVO>>, info)[1] : info \in PaperInfos}
BatchesUpTo(n) == UNION {[1..k -> TriplePool] : k \in 0..n}
Batches == BatchesUpTo(MaxBatchLen)
NonEmptyBatches == Batches \ {<<>>}
ArrayFiles == {FileArray(d) : d \in BatchesUpTo(MaxStored)}
StoredFiles == {NoFile, EmptyFile, TruncatedFile, ObjectFile} \cup ArrayFiles
NoIO == [reads |-> 0, writes |-> 0]

InitStore ==
    /\ file \in StoredFiles
    /\ io = NoIO
    /\ MergeIdle
    /\ MainIdle
    /\ CreateIdle

Clear ==
    /\ file' = ClearStore(file)
    /\ io' = NoIO
    /\ cleared' = TRUE
    /\ merged' = <<>>
    /\ before' = ClearStore(file)
    /\ new_triples' = <<>>
    /\ raised' = <<>>
    /\ mpc' = <<>>
    /\ UNCHANGED <<existing_data, overlapped>>
    /\ UNCHANGED createVars
    /\ UNCHANGED mainVars

Merge ==
    /\ Len(merged) < MaxMerges
    /\ \E batch \in Batches :
        LET r == append_triples_to_json(file, batch, io)
        IN /\ file' = r.file
           /\ io' = r.io
           /\ raised' = <<r.exc>>
           /\ new_triples' = <<batch>>
           /\ merged' = Append(merged, batch)
    /\ before' = file
    /\ mpc' = <<"done">>
    /\ UNCHANGED <<existing_data, overlapped, cleared>>
    /\ UNCHANGED createVars
    /\ UNCHANGED mainVars

NextStore == Clear \/ Merge

SpecStore == InitStore /\ [][NextStore]_vars

Stored == IF file.exists THEN file.data ELSE <<>>
NonEmptyMerged == SelectSeq(merged, LAMBDA b : b # <<>>)

\* C1 - Merge monotonicity: since the store was cleared, with one writer,
\* the persisted array is the concatenation of the batches merged, in order,
\* duplicates kept; the file exists only once a non-empty batch was merged;
\* every non-empty batch costs one rewrite and (but for the first) one read,
\* an empty batch costs neither; no call raised.
C1_MergeMonotonicity ==
    cleared =>
        /\ Stored = Flatten(merged)
        /\ file = IF NonEmptyMerged = <<>> THEN NoFile ELSE FileArray(Flatten(merged))
        /\ io.writes = Len(NonEmptyMerged)
        /\ io.reads = IF NonEmptyMerged = <<>> THEN 0 ELSE Len(NonEmptyMerged) - 1
        /\ \A k \in 1..Len(raised) : raised[k] = "none"

\* two non-empty batches with an empty one between them, a triple repeated
C1_Witness ==
    /\ cleared
    /\ Len(merged) = 3
    /\ merged[1] # <<>>
    /\ merged[2] = <<>>
    /\ merged[3] # <<>>
    /\ merged[3][1] = merged[1][1]
    /\ Len(Stored) = Len(merged[1]) + Len(merged[3])

MissingOrUnparsable(f) == ~f.exists \/ f.kind \in {"empty", "truncated", "object"}

\* C7 (as claimed) - Corruption is swallowed: a merge of a non-empty batch
\* into a missing or unparsable file (empty, truncated, or JSON that is no
\* array) raises nothing and leaves exactly the batch persisted.
C7_CorruptionSwallowed ==
    (mpc = <<"done">> /\ new_triples[1] # <<>> /\ MissingOrUnparsable(before)) =>
        /\ raised[1] = "none"
        /\ file = FileArray(new_triples[1])

(***************************************************************************)
(* append_triples_to_json step by step, for callers that can be cut short  *)
(* or run side by side.  The steps are those another process can observe:  *)
(* the existence test, the read, the open for writing (which truncates),   *)
(* and the dump with the close that flushes it.                            *)
(***************************************************************************)
InFlight(p) == mpc[p] \in {"read", "open_w", "dump"}

\* lines 98-102: return on an empty batch; existing_data = []; exists test.
\* With no file there is nothing to read and extend (line 109) follows at once.
Begin(p) ==
    /\ mpc[p] = "start"
    /\ IF new_triples[p] = <<>>
       THEN /\ mpc' = [mpc EXCEPT ![p] = "done"]
            /\ UNCHANGED existing_data
       ELSE /\ existing_data' =
                 [existing_data EXCEPT ![p] =
                    IF file.exists THEN EmptyList
                    ELSE LET ext == Extend(EmptyList, new_triples[p])
                         IN [is_list |-> ext.is_list, value |-> ext.value]]
            /\ mpc' = [mpc EXCEPT ![p] = IF file.exists THEN "read" ELSE "open_w"]
    /\ overlapped' = (overlapped \/ \E q \in DOMAIN mpc : q # p /\ InFlight(q))
    /\ UNCHANGED <<file, io, new_triples, raised, merged, before, cleared>>
    /\ UNCHANGED createVars
    /\ UNCHANGED mainVars

\* lines 103-109: open for reading, json.load, extend
Read(p) ==
    /\ mpc[p] = "read"
    /\ LET ext == Extend(ReadExisting(file), new_triples[p])
       IN /\ existing_data' =
                [existing_data EXCEPT ![p] = [is_list |-> ext.is_list, value |-> ext.value]]
          /\ raised' = [raised EXCEPT ![p] = ext.exc]
          /\ mpc' = [mpc EXCEPT ![p] = IF ext.exc = "none" THEN "open_w" ELSE "done"]
    /\ io' = [io EXCEPT !.reads = @ + 1]
    /\ UNCHANGED <<file, new_triples, merged, before, overlapped, cleared>>
    /\ UNCHANGED createVars
    /\ UNCHANGED mainVars

\* line 111: open(OUTPUT_PATH, 'w')
OpenW(p) ==
    /\ mpc[p] = "open_w"
    /\ file' = OpenForWrite(file)
    /\ io' = [io EXCEPT !.writes = @ + 1]
    /\ mpc' = [mpc EXCEPT ![p] = "dump"]
    /\ UNCHANGED <<new_triples, existing_data, raised, merged, before, overlapped, cleared>>
    /\ UNCHANGED createVars
    /\ UNCHANGED mainVars

\* line 112 and the end of the with block: the text is written from offset 0
\* of this caller's handle.  Over bytes another handle wrote meanwhile, the
\* result is this caller's text if it is at least as long, else its text
\* followed by the other's tail, which is no JSON.
Dump(p) ==
    /\ mpc[p] = "dump"
    /\ \/ file' = Dumped(existing_data[p].value)
       \/ /\ file.kind # "empty"
          /\ file' = TruncatedFile
    /\ mpc' = [mpc EXCEPT ![p] = "done"]
    /\ merged' = Append(merged, new_triples[p])
    /\ UNCHANGED <<io, new_triples, existing_data, raised, before, overlapped, cleared>>
    /\ UNCHANGED createVars
    /\ UNCHANGED mainVars

\* the call is cut short (the process is killed, or an exception such as
\* KeyboardInterrupt unwinds it).  While the file is open for writing the
\* close flushes whatever part of the text json.dump had produced.
Interrupt(p) ==
    /\ InFlight(p)
    /\ IF mpc[p] = "dump"
       THEN file' \in {file, TruncatedFile}
       ELSE file' = file
    /\ mpc' = [mpc EXCEPT ![p] = "interrupted"]
    /\ UNCHANGED <<io, new_triples, existing_data, raised, merged, before, overlapped, cleared>>
    /\ UNCHANGED createVars
    /\ UNCHANGED mainVars

(***************************************************************************)
(* SpecInterrupt: one caller, one call, which may be cut short anywhere.   *)
(* The file starts as earlier whole calls leave it: missing or an array.   *)
(***************************************************************************)
InitInterrupt ==
    /\ file \in {NoFile} \cup (ArrayFiles \ {FileArray(<<>>)})
    /\ before = file
    /\ io = NoIO
    /\ new_triples \in {<<b>> : b \in Batches}
    /\ existing_data = <<EmptyList>>
    /\ mpc = <<"start">>
    /\ raised = <<"none">>
    /\ merged = <<>>
    /\ overlapped = FALSE
    /\ cleared = FALSE
    /\ MainIdle
    /\ CreateIdle

NextInterrupt == Begin(1) \/ Read(1) \/ OpenW(1) \/ Dump(1) \/ Interrupt(1)

SpecInterrupt == InitInterrupt /\ [][NextInterrupt]_vars

\* C2 (as claimed) - All-or-nothing merge: wherever a call with a non-empty
\* batch is cut short, the persisted collection is the one before the call
\* or that one followed by the whole batch.
C2_AllOrNothing ==
    new_triples[1] # <<>> =>
        \/ file = before
        \/ file = FileArray(before.data \o new_triples[1])

(***************************************************************************)
(* SpecRace: two callers, each making one call with a non-empty batch,     *)
(* their steps interleaved in any order, no call cut short.                *)
(***************************************************************************)
InitRace ==
    /\ file \in {NoFile} \cup (ArrayFiles \ {FileArray(<<>>)})
    /\ before = file
    /\ io = NoIO
    /\ new_triples \in {<<a, b>> : a \in NonEmptyBatches, b \in NonEmptyBatches}
    /\ existing_data = <<EmptyList, EmptyList>>
    /\ mpc = <<"start", "start">>
    /\ raised = <<"none", "none">>
    /\ merged = <<>>
    /\ overlapped = FALSE
    /\ cleared = FALSE
    /\ MainIdle
    /\ CreateIdle

NextRace == \E p \in {1, 2} : Begin(p) \/ Read(p) \/ OpenW(p) \/ Dump(p)

SpecRace == InitRace /\ [][NextRace]_vars

BothDone == mpc = <<"done", "done">>

\* C5 - Lost update: two calls that do not overlap (one begins only after
\* the other has returned) leave the collection before them followed by
\* both batches, in the order of the calls; a collection that lacks a batch
\* comes only from calls that overlapped.
C5_SerializedKeepsBoth ==
    (BothDone /\ ~overlapped) =>
        /\ Len(merged) = 2
        /\ file = FileArray(before.data \o merged[1] \o merged[2])
        /\ raised = <<"none", "none">>

\* an interleaving after which only the later writer's batch is persisted
C5_Witness ==
    /\ BothDone
    /\ overlapped
    /\ new_triples[1] # new_triples[2]
    /\ \E p \in {1, 2} : file = FileArray(before.data \o new_triples[p])

(***************************************************************************)
(* process_single_paper and main.  A paper is what arxiv returned plus     *)
(* what its download, its PDF text and the parser will give.               *)
(***************************************************************************)
SentTwoSubjects ==
    <<Tok(1, DepNsubjpass, 3), Tok(2, DepNsubjpass, 3), Tok(3, DepROOT, 3),
      Tok(4, DepDobj, 3)>>

PaperPool ==
    {[title |-> "Unreachable", entry_id |-> "http://arxiv.org/abs/0",
      download_ok |-> FALSE, pdf_text |-> <<"a">>, parse |-> <<<<SentSVO>>>>],
     [title |-> "Scanned", entry_id |-> "http://arxiv.org/abs/1",
      download_ok |-> TRUE, pdf_text |-> <<>>, parse |-> <<>>],
     [title |-> "Verbless", entry_id |-> "http://arxiv.org/abs/2",
      download_ok |-> TRUE, pdf_text |-> <<"a", "b">>, parse |-> <<<<SentBare>>>>],
     [title |-> "Plain", entry_id |-> "http://arxiv.org/abs/3",
      download_ok |-> TRUE, pdf_text |-> <<"a", "b">>, parse |-> <<<<SentSVO>>>>],
     [title |-> "Double", entry_id |-> "http://arxiv.org/abs/4",
      download_ok |-> TRUE, pdf_text |-> <<"b">>, parse |-> <<<<SentBare, SentTwoSubjects>>>>]}

PaperLists == UNION {[1..n -> PaperPool] : n \in 0..MaxPapers}

\* process_single_paper: any exception, and an empty text, give []
process_single_paper(paper) ==
    IF ~paper.download_ok THEN <<>>
    ELSE IF paper.pdf_text = <<>> THEN <<>>
    ELSE LET info == [title |-> paper.title, url |-> paper.entry_id]
             r == create_triples_from_text(paper.pdf_text, info,
                                           DefaultChunkSize, paper.parse)
         IN IF r.exc # "none" THEN <<>> ELSE r.value

\* a counter of yielding papers instead of triples
CountMutantPapers(total, triples) == total + 1

\* total_triples_found += len(triples)
Count(total, triples) == total + Len(triples)

\* lines 187-189: the results are loaded only if the file exists
LoadResults(state, f) ==
    IF f.exists
    THEN [has_results |-> TRUE, results |-> JsonLoad(f).value]
    ELSE state

InitMain ==
    /\ file \in {NoFile} \cup {FileArray(<<t>>) : t \in TriplePool}
    /\ io = NoIO
    /\ MergeIdle
    /\ MainIdle
    /\ CreateIdle

\* lines 132-156: the button starts a run: clear the file, search, reset
StartRun ==
    /\ pc \in {"idle", "done", "stopped"}
    /\ runs < MaxRuns
    /\ runs' = runs + 1
    /\ file' = ClearStore(file)
    /\ \E found \in PaperLists :
        /\ papers' = found
        /\ pc' = IF found = <<>> THEN "stopped" ELSE "loop"
    /\ idx' = 0
    /\ total_triples_found' = 0
    /\ visited' = <<>>
    /\ io' = NoIO
    /\ UNCHANGED session_state
    /\ UNCHANGED mergeVars
    /\ UNCHANGED createVars

\* lines 158-181: one iteration of the loop over the papers
LoopIteration ==
    /\ pc = "loop"
    /\ idx < Len(papers)
    /\ LET paper == papers[idx + 1]
           triples == process_single_paper(paper)
       IN /\ visited' = Append(visited, paper)
          /\ IF triples # <<>>
             THEN /\ total_triples_found' = Count(total_triples_found, triples)
                  /\ LET r == append_triples_to_json(file, triples, io)
                     IN file' = r.file /\ io' = r.io
             ELSE UNCHANGED <<total_triples_found, file, io>>
    /\ idx' = idx + 1
    /\ UNCHANGED <<session_state, pc, papers, runs>>
    /\ UNCHANGED mergeVars
    /\ UNCHANGED createVars

\* lines 183-189: the loop is over; load the results into the session
FinishRun ==
    /\ pc = "loop"
    /\ idx = Len(papers)
    /\ session_state' = LoadResults(session_state, file)
    /\ pc' = "done"
    /\ UNCHANGED <<file, io, papers, idx, total_triples_found, visited, runs>>
    /\ UNCHANGED mergeVars
    /\ UNCHANGED createVars

NextMain == StartRun \/ LoopIteration \/ FinishRun

SpecMain == InitMain /\ [][NextMain]_vars

LoadedResults == IF session_state.has_results THEN session_state.results ELSE <<>>

\* C8 (as claimed) - Clear resets: a run clears the store first, so the
\* results loaded at its end are what the run itself persisted; a run that
\* merged no batch ends with empty loaded results.
C8_ClearResets ==
    pc = "done" => LoadedResults = Stored

\* C10 - Run-loop accounting: after every iteration the counter equals the
\* number of persisted triples (0 and no file when nothing was merged), the
\* persisted array is the concatenation of what the visited papers yielded
\* (so a paper that fails or yields nothing changes neither), and the papers
\* visited are the first idx papers of the search result, each once.
C10_RunLoopAccounting ==
    pc \in {"loop", "done"} =>
        /\ total_triples_found = Len(Stored)
        /\ file.exists <=> total_triples_found > 0
        /\ Stored = Flatten([k \in 1..idx |-> process_single_paper(papers[k])])
        /\ visited = SubSeq(papers, 1, idx)
        /\ pc = "done" => idx = Len(papers)

\* a failing paper between two yielding ones, a file left by an earlier run
C10_Witness ==
    /\ pc = "done"
    /\ runs = 2
    /\ Len(papers) = 3
    /\ process_single_paper(papers[1]) # <<>>
    /\ process_single_paper(papers[2]) = <<>>
    /\ Len(process_single_paper(papers[3])) = 2
    /\ total_triples_found = Len(process_single_paper(papers[1])) + 2

====
